---- MODULE Spec2Model ----
(***************************************************************************)
(* golopro (lopro.go): a pool of Workers pulls file paths from a bounded   *)
(* task channel, decodes each file with its own Parser and tallies keys in *)
(* its own ReportManager; after the join, main merges the WorkerStats and  *)
(* the master ReportManager Reduces its clones.                            *)
(*                                                                         *)
(* Go slices and worker ids are 0-based; the sequences below are 1-based:  *)
(* worker id i is workers[i+1], the master ReportManager and the master    *)
(* Parser are instance 1, thread 0 is main, thread w is workers[w].        *)
(* Counts are int64 in the source; every count reached here is far below   *)
(* 2^63, so the additions never wrap.                                      *)
(***************************************************************************)
EXTENDS Integers, Sequences, FiniteSets, TLC

VARIABLES
    flags,        \* main: the command line (-keys, and what -in names)
    ks,           \* main: the key indices parsed from -keys
    files,        \* main: the input files (what stat/open/decode give for each)
    nworkers,     \* main: the pool size (-procs)
    reports,      \* ReportManager.reports, one sequence of Reports per manager
    references,   \* ReportManager.references, one sequence of manager ids per manager
    parsers,      \* the CSVParser instances: comma and the reader's position
    workers,      \* main: the Worker structs (id, stats, reportMgr, parser)
    wpc,          \* where each worker's goroutine stands in Run/Process
    wfile,        \* Run's local variable file, per worker (0 is "")
    tasks,        \* the tasks channel's buffer
    exit,         \* the exit channel's buffer (number of values in it)
    mainpc,       \* where main stands
    mi,           \* main's loop index
    output,       \* what ReportManager.Output wrote, per Report
    rmUsers,      \* per ReportManager: the threads that used it in the parallel phase
    parserUsers,  \* per Parser: the threads that used it in the parallel phase
    wops,         \* per worker: how often it dequeued, acknowledged, decoded, ...
    lastOp,       \* the last two calls made on the managers, oldest first
    calls,        \* how many records have been handed to ProcessRecord or Add
    added,        \* the records handed to Add so far, in order
    seqReports,   \* one Report per index fed every record by Add alone, in sequence
    lateRegister  \* whether RegisterReport was called on a manager that had clones

vars == <<flags, ks, files, nworkers, reports, references, parsers, workers, wpc, wfile,
          tasks, exit, mainpc, mi, output, rmUsers, parserUsers, wops, lastOp,
          calls, added, seqReports, lateRegister>>

-----------------------------------------------------------------------------
(* map[string]int64 *)

EmptyMap == [k \in {} |-> 0]

\* m[k] of a Go map: the zero value for a missing key
Get(m, k) == IF k \in DOMAIN m THEN m[k] ELSE 0

\* m[k] += v
AddTo(m, k, v) == [x \in DOMAIN m \cup {k} |-> IF x = k THEN Get(m, k) + v ELSE m[x]]

RECURSIVE SumOver(_, _)
SumOver(m, S) ==
    IF S = {} THEN 0
    ELSE LET k == CHOOSE x \in S : TRUE IN m[k] + SumOver(m, S \ {k})

\* the sum of all counts of a map
Total(m) == SumOver(m, DOMAIN m)

-----------------------------------------------------------------------------
(* LogRecord: interface{}; isStrings says whether it holds a []string *)

StrRec(fields) == [isStrings |-> TRUE, r |-> fields]
Opaque == [isStrings |-> FALSE, r |-> <<>>]

-----------------------------------------------------------------------------
(* DefaultReport, QuickReport *)

NewQuickReport(keys) == [result |-> EmptyMap, keys |-> keys]

\* a New() that copies the accumulator too
NewCopiesResult(qr) == qr

New(qr) == NewQuickReport(qr.keys)

Name(qr) == "quick"

\* the loop of Add from its i-th iteration on (i is 1-based here, keys[i] 0-based)
RECURSIVE KeyLoop(_, _, _, _)
KeyLoop(r, keys, i, key) ==
    IF i > Len(keys) THEN key
    ELSE LET k == keys[i]
             sep == IF i > 1 THEN key \o "," ELSE key
         IN IF k >= Len(r) THEN KeyLoop(r, keys, i + 1, sep)
            ELSE KeyLoop(r, keys, i + 1, sep \o r[k + 1])

\* r[k] with k < 0 is an index out of range: Add panics
AddPanics(qr, rec) == rec.isStrings /\ \E i \in DOMAIN qr.keys : qr.keys[i] < 0

\* an Add whose continue comes before the separator is appended
RECURSIVE KeyLoopNoSegment(_, _, _, _)
KeyLoopNoSegment(r, keys, i, key) ==
    IF i > Len(keys) THEN key
    ELSE LET k == keys[i]
         IN IF k >= Len(r) THEN KeyLoopNoSegment(r, keys, i + 1, key)
            ELSE KeyLoopNoSegment(r, keys, i + 1, (IF i > 1 THEN key \o "," ELSE key) \o r[k + 1])

AddNoSegment(qr, rec) ==
    IF ~rec.isStrings THEN qr
    ELSE [qr EXCEPT !.result = AddTo(@, KeyLoopNoSegment(rec.r, qr.keys, 1, ""), 1)]

Add(qr, rec) ==
    IF ~rec.isStrings THEN qr
    ELSE [qr EXCEPT !.result = AddTo(@, KeyLoop(rec.r, qr.keys, 1, ""), 1)]

RECURSIVE MergeLoop(_, _, _)
MergeLoop(result, other, K) ==
    IF K = {} THEN result
    ELSE LET k == CHOOSE x \in K : TRUE
         IN MergeLoop(AddTo(result, k, other[k]), other, K \ {k})

\* a Merge that assigns instead of adding
MergeAssigns(qr, nr) ==
    [qr EXCEPT !.result = [k \in DOMAIN @ \cup DOMAIN nr.result |->
                              IF k \in DOMAIN nr.result THEN nr.result[k] ELSE @[k]]]

Merge(qr, nr) == [qr EXCEPT !.result = MergeLoop(@, nr.result, DOMAIN nr.result)]

\* a Clear that leaves the accumulator as it is
ClearKeeps(qr) == qr

Clear(qr) == [qr EXCEPT !.result = EmptyMap]

\* the lines Output writes, in no order: "<key>,<count>"
Output(qr) == {<<k, qr.result[k]>> : k \in DOMAIN qr.result}

-----------------------------------------------------------------------------
(* ReportManager: rs is every manager's reports, refs every manager's
   references; a manager is its index in both *)

NewReportManager == [reports |-> <<>>, references |-> <<>>]

RegisterReport(rs, rm, rpt) == [rs EXCEPT ![rm] = Append(@, rpt)]

\* a Clone whose loop stops one Report short
CloneDropsLast(rs, rm) == [i \in 1..(Len(rs[rm]) - 1) |-> New(rs[rm][i])]

\* nrm.reports of Clone: one New() per Report of rm, in order
CloneReports(rs, rm) == [i \in 1..Len(rs[rm]) |-> New(rs[rm][i])]

\* the managers' reports after rm.Clone(); the clone is manager Len(rs) + 1
Clone(rs, rm) == Append(rs, CloneReports(rs, rm))

\* a Clone that does not append the clone to the references
CloneRefsForgets(refs, rm) == Append(refs, <<>>)

\* the managers' references after rm.Clone(): nrm has none (nil)
CloneRefs(refs, rm) == Append([refs EXCEPT ![rm] = Append(@, Len(refs) + 1)], <<>>)

ProcessRecord(rs, rm, rec) ==
    [rs EXCEPT ![rm] = [i \in 1..Len(@) |-> Add(@[i], rec)]]

\* nrm.reports[i] of Reduce is out of range when a clone holds fewer Reports
ReducePanics(rs, refs, rm) ==
    \E j \in DOMAIN refs[rm] : Len(rs[refs[rm][j]]) < Len(rs[rm])

\* Reduce's loops from Report i and reference j on
RECURSIVE ReduceLoop(_, _, _, _, _)
ReduceLoop(rs, refs, rm, i, j) ==
    IF i > Len(rs[rm]) THEN rs
    ELSE IF j > Len(refs[rm]) THEN ReduceLoop(rs, refs, rm, i + 1, 1)
    ELSE LET nrm == refs[rm][j]
             merged == [rs EXCEPT ![rm][i] = Merge(@, rs[nrm][i])]
             cleared == [merged EXCEPT ![nrm][i] = Clear(@)]
         IN ReduceLoop(cleared, refs, rm, i, j + 1)

\* a Reduce whose inner loop stops one reference short
ReduceSkipsLast(rs, refs, rm) ==
    ReduceLoop(rs, [refs EXCEPT ![rm] = SubSeq(@, 1, Len(@) - 1)], rm, 1, 1)

Reduce(rs, refs, rm) == ReduceLoop(rs, refs, rm, 1, 1)

\* Reduce up to its panic: the merges and clears made before the first
\* nrm.reports[i] that is out of range
RECURSIVE ReduceUntilPanic(_, _, _, _, _)
ReduceUntilPanic(rs, refs, rm, i, j) ==
    IF i > Len(rs[rm]) THEN rs
    ELSE IF j > Len(refs[rm]) THEN ReduceUntilPanic(rs, refs, rm, i + 1, 1)
    ELSE LET nrm == refs[rm][j]
         IN IF i > Len(rs[nrm]) THEN rs
            ELSE LET merged == [rs EXCEPT ![rm][i] = Merge(@, rs[nrm][i])]
                     cleared == [merged EXCEPT ![nrm][i] = Clear(@)]
                 IN ReduceUntilPanic(cleared, refs, rm, i, j + 1)

\* what rm.Output(dir) writes: one artifact per Report, named after Name()
OutputAll(rs, rm) == [i \in 1..Len(rs[rm]) |-> [name |-> Name(rs[rm][i]), lines |-> Output(rs[rm][i])]]

-----------------------------------------------------------------------------
(* The values the manager-level specifications leave alone *)

NoReader == [file |-> 0, pos |-> 0]

\* no command line: the specification starts after main has read it
NoFlags == [keys |-> <<>>, in |-> [stat |-> TRUE, isDir |-> TRUE, readable |-> TRUE, entries |-> <<>>]]

IdleMain ==
    /\ flags = NoFlags
    /\ ks = <<>> /\ files = <<>> /\ nworkers = 0
    /\ parsers = <<>> /\ workers = <<>> /\ wpc = <<>> /\ wfile = <<>>
    /\ tasks = <<>> /\ exit = 0 /\ mainpc = "idle" /\ mi = 0 /\ output = <<>>
    /\ rmUsers = <<>> /\ parserUsers = <<>> /\ wops = <<>>

mainVars == <<flags, ks, files, nworkers, parsers, workers, wpc, wfile, tasks, exit,
              mainpc, mi, output, rmUsers, parserUsers, wops>>

NoOp == [op |-> "none", rm |-> 0, n |-> 0]

\* lastOp after a call: the call before it and this one
Called(op, rm, n) == <<lastOp[2], [op |-> op, rm |-> rm, n |-> n]>>

-----------------------------------------------------------------------------
(* SpecAdd: QuickReport.Add alone, on one Report, over sample records and
   key lists *)

MaxAdds == 3

\* the records of the documented examples, shorter and longer ones, and a
\* LogRecord that holds no []string
SampleRecords ==
    {StrRec(r) : r \in {<<>>, <<"a">>, <<"b">>, <<"a", "1">>, <<"a", "2">>, <<"b", "1">>,
                        <<"a", "x">>, <<"a", "y">>, <<"", "x">>, <<"a", "x", "1">>}}
    \cup {Opaque}

SampleKeyLists == {<<>>, <<0>>, <<1>>, <<0, 1>>, <<1, 0>>, <<2>>, <<0, 2, 1>>, <<2, 0>>, <<1, 1>>}

InitAdd ==
    /\ IdleMain
    /\ \E keys \in SampleKeyLists :
           reports = <<RegisterReport(<<NewReportManager.reports>>, 1, NewQuickReport(keys))[1]>>
    /\ references = <<NewReportManager.references>>
    /\ lastOp = <<NoOp, NoOp>>
    /\ calls = 0
    /\ added = <<>>
    /\ seqReports = <<>>
    /\ lateRegister = FALSE

AddStep ==
    /\ calls < MaxAdds
    /\ \E rec \in SampleRecords :
          /\ ~AddPanics(reports[1][1], rec)
          /\ reports' = [reports EXCEPT ![1][1] = Add(@, rec)]
          /\ added' = Append(added, rec)
    /\ calls' = calls + 1
    /\ lastOp' = Called("Add", 1, 1)
    /\ UNCHANGED <<mainVars, references, seqReports, lateRegister>>

NextAdd == AddStep

SpecAdd == InitAdd /\ [][NextAdd]_vars

-----------------------------------------------------------------------------
(* C8 *)

\* the field at index k of record r, or the empty string beyond its fields
Segment(r, k) == IF k < Len(r) THEN r[k + 1] ELSE ""

RECURSIVE Joined(_)
Joined(segs) ==
    IF segs = <<>> THEN ""
    ELSE IF Len(segs) = 1 THEN segs[1]
    ELSE segs[1] \o "," \o Joined(Tail(segs))

ExpectedKey(r, keys) == Joined([i \in 1..Len(keys) |-> Segment(r, keys[i])])

\* how many of the records added so far (sequences of strings) have key k
Tally(keys, k) ==
    Cardinality({i \in DOMAIN added : added[i].isStrings /\ ExpectedKey(added[i].r, keys) = k})

ExpectedKeys(keys) ==
    {ExpectedKey(added[i].r, keys) : i \in {j \in DOMAIN added : added[j].isStrings}}

\* C8: Key construction. After any sequence of Adds, the Report holds exactly
\* the keys obtained by joining with ',' one segment per configured index (the
\* field at that index, or the empty string beyond the record's fields), each
\* counted once per record that has it: every Add incremented its record's key
\* by exactly 1 and changed no other key. The two documented examples come out
\* as documented.
C8_KeyConstruction ==
    LET qr == reports[1][1] IN
    /\ DOMAIN qr.result = ExpectedKeys(qr.keys)
    /\ \A k \in DOMAIN qr.result : qr.result[k] = Tally(qr.keys, k)
    /\ (qr.keys = <<0>> /\ added = <<StrRec(<<"a", "1">>), StrRec(<<"a", "2">>), StrRec(<<"b", "1">>)>>)
          => qr.result = [k \in {"a", "b"} |-> IF k = "a" THEN 2 ELSE 1]
    /\ (qr.keys = <<0, 1>> /\ added = <<StrRec(<<"a", "x">>), StrRec(<<"a", "y">>)>>)
          => qr.result = [k \in {"a,x", "a,y"} |-> 1]

\* a record shorter than a configured index was added twice, after another key
C8_Witness ==
    /\ reports[1][1].keys = <<0, 2, 1>>
    /\ added = <<StrRec(<<"b", "1">>), StrRec(<<"a", "x">>), StrRec(<<"a", "x">>)>>
    /\ reports[1][1].result = [k \in {"b,,1", "a,,x"} |-> IF k = "a,,x" THEN 2 ELSE 1]

-----------------------------------------------------------------------------
(* SpecRM: a master ReportManager with its Reports registered, then any
   sequence of Clone, ProcessRecord (on the master or a clone) and Reduce *)

MaxClones == 2
MaxRecords == 3

MasterRM == 1

\* the key lists of the Reports registered on the master, in order
RMConfigs == {<< <<0>> >>, << <<0, 1>> >>, << <<0>>, <<1>> >>}

RMRecords == {StrRec(<<"a", "x">>), StrRec(<<"a", "y">>), StrRec(<<"b">>), Opaque}

RECURSIVE RegisterAll(_, _, _, _)
RegisterAll(rs, rm, cfg, i) ==
    IF i > Len(cfg) THEN rs
    ELSE RegisterAll(RegisterReport(rs, rm, NewQuickReport(cfg[i])), rm, cfg, i + 1)

\* the sum of all counts held by the clones of rm
RECURSIVE CountsIn(_, _)
CountsIn(rs, ms) ==
    IF ms = {} THEN 0
    ELSE LET m == CHOOSE x \in ms : TRUE
             RECURSIVE Sum(_)
             Sum(i) == IF i > Len(rs[m]) THEN 0 ELSE Total(rs[m][i].result) + Sum(i + 1)
         IN Sum(1) + CountsIn(rs, ms \ {m})

InitRM ==
    /\ IdleMain
    /\ \E cfg \in RMConfigs :
          /\ reports = RegisterAll(<<NewReportManager.reports>>, MasterRM, cfg, 1)
          /\ seqReports = [i \in 1..Len(cfg) |-> NewQuickReport(cfg[i])]
    /\ references = <<NewReportManager.references>>
    /\ lastOp = <<NoOp, NoOp>>
    /\ calls = 0
    /\ added = <<>>
    /\ lateRegister = FALSE

\* Reduce has panicked: the program is over
Crashed == lastOp[2].op = "ReducePanic"

RMClone ==
    /\ ~Crashed
    /\ Len(reports) < 1 + MaxClones
    /\ reports' = Clone(reports, MasterRM)
    /\ references' = CloneRefs(references, MasterRM)
    /\ lastOp' = Called("Clone", MasterRM, Len(reports) + 1)
    /\ UNCHANGED <<mainVars, calls, added, seqReports, lateRegister>>

RMProcessRecord ==
    /\ ~Crashed
    /\ calls < MaxRecords
    /\ \E rm \in DOMAIN reports, rec \in RMRecords :
          /\ \A i \in DOMAIN reports[rm] : ~AddPanics(reports[rm][i], rec)
          /\ reports' = ProcessRecord(reports, rm, rec)
          /\ seqReports' = [i \in DOMAIN seqReports |-> Add(seqReports[i], rec)]
          /\ lastOp' = Called("ProcessRecord", rm, 1)
    /\ calls' = calls + 1
    /\ UNCHANGED <<mainVars, references, added, lateRegister>>

RMReduce ==
    /\ ~Crashed
    /\ ~ReducePanics(reports, references, MasterRM)
    /\ reports' = Reduce(reports, references, MasterRM)
    /\ lastOp' = Called("Reduce", MasterRM,
                        CountsIn(reports, {references[MasterRM][j] : j \in DOMAIN references[MasterRM]}))
    /\ UNCHANGED <<mainVars, references, calls, added, seqReports, lateRegister>>

NextRM == RMClone \/ RMProcessRecord \/ RMReduce

SpecRM == InitRM /\ [][NextRM]_vars

-----------------------------------------------------------------------------
(* C1, C6, C7 *)

\* C1: Partition independence. Right after the master's Reduce, whatever
\* manager (the master or a clone) each record was handed to, the master's
\* count for every key of every Report equals the count a single Report
\* reaches by Add over all the records in sequence.
C1_PartitionIndependence ==
    lastOp[2].op = "Reduce" =>
        \A i \in DOMAIN reports[MasterRM] :
            \A k \in DOMAIN reports[MasterRM][i].result \cup DOMAIN seqReports[i].result :
                Get(reports[MasterRM][i].result, k) = Get(seqReports[i].result, k)

\* a Reduce that folded two clones' counts into a master that held its own
C1_Witness ==
    /\ lastOp[2].op = "Reduce" /\ lastOp[2].n >= 2
    /\ Len(references[MasterRM]) = 2
    /\ Total(reports[MasterRM][1].result) = 3
    /\ Cardinality(DOMAIN reports[MasterRM][1].result) >= 2

\* C6: Clone isolation. A step that is a Clone gives the new manager one
\* Report per Report of the source, each with zero entries, and leaves the
\* Reports of the source (and of every other manager) as they were.
C6_CloneIsolation ==
    [][(lastOp'[2].op = "Clone" /\ Len(reports') = Len(reports) + 1) =>
         /\ Len(reports'[Len(reports')]) = Len(reports[MasterRM])
         /\ \A i \in DOMAIN reports'[Len(reports')] :
                DOMAIN reports'[Len(reports')][i].result = {}
         /\ \A m \in DOMAIN reports : reports'[m] = reports[m]]_vars

\* a clone made of a master whose Report holds counts
C6_Witness ==
    /\ lastOp[2].op = "Clone"
    /\ Total(reports[MasterRM][1].result) >= 2
    /\ DOMAIN reports[Len(reports)][1].result = {}

\* C7: Reduce idempotence. A Reduce that directly follows a Reduce (no
\* ProcessRecord in between) leaves the master's Reports as the first left them.
C7_ReduceIdempotent ==
    [][(lastOp[2].op = "Reduce" /\ lastOp'[2].op = "Reduce" /\ lastOp'[1] = lastOp[2]) =>
         reports'[MasterRM] = reports[MasterRM]]_vars

\* two Reduces in a row, the first of which merged counts from the clones
C7_Witness ==
    /\ lastOp[1].op = "Reduce" /\ lastOp[1].n >= 2
    /\ lastOp[2].op = "Reduce"
    /\ Total(reports[MasterRM][1].result) >= 2

-----------------------------------------------------------------------------
(* WorkerStats, CSVParser, Worker *)

ZeroStats == [files |-> 0, bytes |-> 0, bytesCompressed |-> 0, records |-> 0]

StatsMerge(s, ws) ==
    [files |-> s.files + ws.files,
     bytes |-> s.bytes + ws.bytes,
     bytesCompressed |-> s.bytesCompressed + ws.bytesCompressed,
     records |-> s.records + ws.records]

NewCSVParser(comma) == [comma |-> comma, reader |-> NoReader]

\* CSVParser.Clone: the same comma, no reader
CloneParser(lp) == NewCSVParser(lp.comma)

\* CSVParser.Reset: a new csv.Reader at the start of the stream of file f
Reset(lp, f) == [lp EXCEPT !.reader = [file |-> f, pos |-> 1]]

\* CSVParser.NextRecord on the stream of file fl: always 0 bytes, the record
\* csv.Reader.Read returned and its error (io.EOF at the end of the stream)
NextRecord(lp, fl) ==
    IF lp.reader.pos > Len(fl.items)
    THEN [bytes |-> 0, rec |-> StrRec(<<>>), err |-> "EOF"]
    ELSE [bytes |-> 0, rec |-> StrRec(fl.items[lp.reader.pos].r),
          err |-> IF fl.items[lp.reader.pos].bad THEN "parse" ELSE "nil"]

\* the parser after NextRecord: the reader has consumed one record, if any
Advance(lp, fl) ==
    IF lp.reader.pos > Len(fl.items) THEN lp ELSE [lp EXCEPT !.reader.pos = @ + 1]

NewWorker(id, reportMgr, parser) ==
    [id |-> id, stats |-> ZeroStats, reportMgr |-> reportMgr, parser |-> parser]

\* a record loop that stops at the first error of any kind
BreaksOnAnyError(err) == err # "nil"

\* Process's record loop breaks on io.EOF only; any other error is logged
Breaks(err) == err = "EOF"

\* a Run that goes back to the queue after its acknowledgment
NoBreakAfterExit == "recv"

\* Run breaks out of its loop after the acknowledgment: the goroutine ends
AfterExit == "exited"

\* took: the files the worker dequeued; procd: the files it called Process on
ZeroOps == [deq |-> 0, sentinels |-> 0, acks |-> 0, next |-> 0, proc |-> 0, stats |-> 0,
            took |-> <<>>, procd |-> <<>>]

\* a Run that ends its goroutine when Process fails
EndsOnError == "exited"

\* Run after Process returned an error: it logs it and takes the next task
AfterError == "recv"

\* a loop that counts the read that hit the end of the stream as a record
StatsAtEOFCountsRecord(stats, size) ==
    [stats EXCEPT !.bytesCompressed = @ + size, !.files = @ + 1, !.records = @ + 1]

\* Process after its record loop: the file's size and the file are counted
StatsAtEOF(stats, size) == [stats EXCEPT !.bytesCompressed = @ + size, !.files = @ + 1]

\* a loop that adds the byte count to records as well
StatsAddsBytesToRecords(stats, bytes) ==
    [stats EXCEPT !.bytes = @ + bytes, !.records = @ + bytes]

\* Process after ProcessRecord: the record's bytes and the record are counted
StatsAfterRecord(stats, bytes) == [stats EXCEPT !.bytes = @ + bytes, !.records = @ + 1]

-----------------------------------------------------------------------------
(* Spec: a whole run of main, from the creation of the workers on *)

MaxWorkers == 2
MaxFiles == 2

GoodItem(r) == [bad |-> FALSE, r |-> r]
\* a failed decode: r is the record Read returned with the error (nil, or the
\* fields of a record with the wrong number of fields)
BadItem(r) == [bad |-> TRUE, r |-> r]

\* ok: stat, open and the decompressor's initialisation succeed
SampleFiles ==
    {[ok |-> TRUE, size |-> 3, items |-> <<GoodItem(<<"a", "x">>), GoodItem(<<"b", "y">>)>>],
     [ok |-> TRUE, size |-> 5,
      items |-> <<GoodItem(<<"a", "x">>), BadItem(<<>>), GoodItem(<<"a", "y">>)>>],
     [ok |-> TRUE, size |-> 1, items |-> <<BadItem(<<"a">>)>>],
     [ok |-> TRUE, size |-> 0, items |-> <<>>],
     [ok |-> FALSE, size |-> 0, items |-> <<>>]}

MainKeyLists == {<<0>>, <<0, 1>>}

FileLists == UNION {[1..n -> SampleFiles] : n \in 0..MaxFiles}

Sentinel == 0

MainThread == 0

\* the parallel phase: from the first go w.Run() to the last <-exit
InParallel ==
    /\ \E w \in DOMAIN wpc : wpc[w] # "new"
    /\ mainpc \notin {"merge", "reduce", "output", "done"}

\* users with thread t noted as a user of instance id, in the parallel phase
Use(users, id, t) == IF InParallel THEN [users EXCEPT ![id] = @ \cup {t}] ELSE users

\* a push loop that sends the first file every time
PushedFirst(i) == 1

\* the task pushed by iteration i of the loop over files: files[i]
PushedTask(i) == i + 1

\* a merge loop that never skips
NeverMaster(i) == FALSE

\* w == master in the loop over workers: master is workers[0]
IsMaster(i) == i = 0

\* a Clone that returns its receiver
CloneReturnsSelf(rs) == MasterRM

\* the manager rm.Clone() returns: the new one
CloneId(rs) == Len(rs) + 1

\* a join loop that stops after its first iteration
JoinDoneEarly(i) == TRUE

\* a join loop that makes one iteration more than there are workers
JoinOneMore(i) == i >= nworkers

\* the loop over workers of lines 316-319 ends after iteration len(workers)-1
JoinDone(i) == i + 1 >= nworkers

Init ==
    /\ flags = NoFlags
    /\ ks \in MainKeyLists
    /\ files \in FileLists
    /\ nworkers \in 1..MaxWorkers
    /\ reports = RegisterReport(<<NewReportManager.reports>>, MasterRM, NewQuickReport(ks))
    /\ references = <<NewReportManager.references>>
    /\ parsers = <<NewCSVParser(",")>>
    /\ workers = <<NewWorker(0, MasterRM, 1)>>
    /\ wpc = <<"new">>
    /\ wfile = <<Sentinel>>
    /\ wops = <<ZeroOps>>
    /\ tasks = <<>>
    /\ exit = 0
    /\ mainpc = IF nworkers > 1 THEN "create" ELSE "start"
    /\ mi = IF nworkers > 1 THEN 1 ELSE 0
    /\ output = <<>>
    /\ rmUsers = <<{}>>
    /\ parserUsers = <<{}>>
    /\ lastOp = <<NoOp, NoOp>>
    /\ calls = 0
    /\ added = <<>>
    /\ seqReports = <<>>
    /\ lateRegister = FALSE

rmGhost == <<lastOp, calls, added, seqReports, lateRegister>>

\* workers[i] = NewWorker(tasks, exit, i, reportMgr.Clone(), parser.Clone())
MainCreateWorker ==
    /\ mainpc = "create"
    /\ mi < nworkers
    /\ reports' = Clone(reports, MasterRM)
    /\ references' = CloneRefs(references, MasterRM)
    /\ parsers' = Append(parsers, CloneParser(parsers[1]))
    /\ workers' = Append(workers, NewWorker(mi, CloneId(reports), Len(parsers) + 1))
    /\ wpc' = Append(wpc, "new")
    /\ wfile' = Append(wfile, Sentinel)
    /\ wops' = Append(wops, ZeroOps)
    /\ rmUsers' = Append(Use(rmUsers, MasterRM, MainThread), {})
    /\ parserUsers' = Append(Use(parserUsers, 1, MainThread), {})
    /\ IF mi + 1 < nworkers
       THEN mi' = mi + 1 /\ mainpc' = "create"
       ELSE mi' = 0 /\ mainpc' = "start"
    /\ UNCHANGED <<flags, ks, files, nworkers, tasks, exit, output, rmGhost>>

\* go w.Run()
MainStart ==
    /\ mainpc = "start"
    /\ wpc' = [wpc EXCEPT ![mi + 1] = "recv"]
    /\ IF mi + 1 < nworkers
       THEN mi' = mi + 1 /\ mainpc' = "start"
       ELSE mi' = 0 /\ mainpc' = IF Len(files) > 0 THEN "push" ELSE "sentinel"
    /\ UNCHANGED <<flags, ks, files, nworkers, reports, references, parsers, workers, wfile,
                   tasks, exit, output, rmUsers, parserUsers, wops, rmGhost>>

\* tasks <- file
MainPush ==
    /\ mainpc = "push"
    /\ Len(tasks) < nworkers
    /\ tasks' = Append(tasks, PushedTask(mi))
    /\ IF mi + 1 < Len(files)
       THEN mi' = mi + 1 /\ mainpc' = "push"
       ELSE mi' = 0 /\ mainpc' = "sentinel"
    /\ UNCHANGED <<flags, ks, files, nworkers, reports, references, parsers, workers, wpc,
                   wfile, exit, output, rmUsers, parserUsers, wops, rmGhost>>

\* tasks <- ""
MainSentinel ==
    /\ mainpc = "sentinel"
    /\ Len(tasks) < nworkers
    /\ tasks' = Append(tasks, Sentinel)
    /\ mainpc' = "wait"
    /\ UNCHANGED <<flags, ks, files, nworkers, reports, references, parsers, workers, wpc,
                   wfile, exit, mi, output, rmUsers, parserUsers, wops, rmGhost>>

\* <-exit
MainWait ==
    /\ mainpc = "wait"
    /\ exit > 0
    /\ exit' = exit - 1
    /\ IF JoinDone(mi)
       THEN mi' = 0 /\ mainpc' = "merge"
       ELSE mi' = mi + 1 /\ mainpc' = "sentinel"
    /\ UNCHANGED <<flags, ks, files, nworkers, reports, references, parsers, workers, wpc,
                   wfile, tasks, output, rmUsers, parserUsers, wops, rmGhost>>

\* one iteration of the loop that merges the workers' stats into the master's
MainMerge ==
    /\ mainpc = "merge"
    /\ workers' = IF IsMaster(mi) THEN workers
                  ELSE [workers EXCEPT ![1].stats = StatsMerge(@, workers[mi + 1].stats)]
    /\ IF mi + 1 < nworkers
       THEN mi' = mi + 1 /\ mainpc' = "merge"
       ELSE mi' = 0 /\ mainpc' = "reduce"
    /\ UNCHANGED <<flags, ks, files, nworkers, reports, references, parsers, wpc, wfile,
                   tasks, exit, output, rmUsers, parserUsers, wops, rmGhost>>

\* reportMgr.Reduce()
MainReduce ==
    /\ mainpc = "reduce"
    /\ ~ReducePanics(reports, references, MasterRM)
    /\ reports' = Reduce(reports, references, MasterRM)
    /\ rmUsers' = [m \in DOMAIN rmUsers |->
                      IF m = MasterRM \/ \E j \in DOMAIN references[MasterRM] : references[MasterRM][j] = m
                      THEN Use(rmUsers, m, MainThread)[m] ELSE rmUsers[m]]
    /\ mainpc' = "output"
    /\ UNCHANGED <<flags, ks, files, nworkers, references, parsers, workers, wpc, wfile,
                   tasks, exit, mi, output, parserUsers, wops, rmGhost>>

\* reportMgr.Output(*out)
MainOutput ==
    /\ mainpc = "output"
    /\ output' = OutputAll(reports, MasterRM)
    /\ rmUsers' = Use(rmUsers, MasterRM, MainThread)
    /\ mainpc' = "done"
    /\ UNCHANGED <<flags, ks, files, nworkers, reports, references, parsers, workers, wpc,
                   wfile, tasks, exit, mi, parserUsers, wops, rmGhost>>

\* Run: file := <-w.tasks, and the test for the sentinel
WorkerRecv(w) ==
    /\ wpc[w] = "recv"
    /\ Len(tasks) > 0
    /\ tasks' = Tail(tasks)
    /\ wfile' = [wfile EXCEPT ![w] = Head(tasks)]
    /\ wpc' = [wpc EXCEPT ![w] = IF Head(tasks) = Sentinel THEN "ack" ELSE "process"]
    /\ wops' = [wops EXCEPT ![w].deq = @ + 1,
                            ![w].sentinels = IF Head(tasks) = Sentinel THEN @ + 1 ELSE @,
                            ![w].took = IF Head(tasks) = Sentinel THEN @
                                        ELSE Append(@, Head(tasks))]
    /\ UNCHANGED <<flags, ks, files, nworkers, reports, references, parsers, workers, exit,
                   mainpc, mi, output, rmUsers, parserUsers, rmGhost>>

\* Run: w.exit <- true; break
WorkerExit(w) ==
    /\ wpc[w] = "ack"
    /\ exit < nworkers
    /\ exit' = exit + 1
    /\ wpc' = [wpc EXCEPT ![w] = AfterExit]
    /\ wops' = [wops EXCEPT ![w].acks = @ + 1]
    /\ UNCHANGED <<flags, ks, files, nworkers, reports, references, parsers, workers, wfile,
                   tasks, mainpc, mi, output, rmUsers, parserUsers, rmGhost>>

\* Process up to its record loop: stat, open, the decompressor, Reset; on a
\* failure Process returns the error, Run logs it and goes on
WorkerOpen(w) ==
    /\ wpc[w] = "process"
    /\ IF files[wfile[w]].ok
       THEN /\ parsers' = [parsers EXCEPT ![workers[w].parser] = Reset(@, wfile[w])]
            /\ parserUsers' = Use(parserUsers, workers[w].parser, w)
            /\ wpc' = [wpc EXCEPT ![w] = "loop"]
       ELSE /\ wpc' = [wpc EXCEPT ![w] = AfterError]
            /\ UNCHANGED <<parsers, parserUsers>>
    /\ wops' = [wops EXCEPT ![w].procd = Append(@, wfile[w])]
    /\ UNCHANGED <<flags, ks, files, nworkers, reports, references, workers, wfile, tasks,
                   exit, mainpc, mi, output, rmUsers, rmGhost>>

\* one iteration of Process's record loop and, when it breaks, the rest of
\* Process
WorkerRecord(w) ==
    /\ wpc[w] = "loop"
    /\ LET lp == parsers[workers[w].parser]
           fl == files[lp.reader.file]
           res == NextRecord(lp, fl)
       IN /\ parsers' = [parsers EXCEPT ![workers[w].parser] = Advance(lp, fl)]
          /\ parserUsers' = Use(parserUsers, workers[w].parser, w)
          /\ IF Breaks(res.err)
             THEN /\ workers' = [workers EXCEPT
                                   ![w].stats = StatsAtEOF(@, files[wfile[w]].size)]
                  /\ wpc' = [wpc EXCEPT ![w] = "recv"]
                  /\ wops' = [wops EXCEPT ![w].next = @ + 1, ![w].stats = @ + 1]
                  /\ UNCHANGED <<reports, rmUsers>>
             ELSE /\ \A i \in DOMAIN reports[workers[w].reportMgr] :
                        ~AddPanics(reports[workers[w].reportMgr][i], res.rec)
                  /\ reports' = ProcessRecord(reports, workers[w].reportMgr, res.rec)
                  /\ rmUsers' = Use(rmUsers, workers[w].reportMgr, w)
                  /\ workers' = [workers EXCEPT
                                   ![w].stats = StatsAfterRecord(@, res.bytes)]
                  /\ wops' = [wops EXCEPT ![w].next = @ + 1, ![w].proc = @ + 1,
                                          ![w].stats = @ + 1]
                  /\ UNCHANGED wpc
    /\ UNCHANGED <<flags, ks, files, nworkers, references, wfile, tasks, exit, mainpc, mi,
                   output, rmGhost>>

Next ==
    \/ MainCreateWorker
    \/ MainStart
    \/ MainPush
    \/ MainSentinel
    \/ MainWait
    \/ MainMerge
    \/ MainReduce
    \/ MainOutput
    \/ \E w \in DOMAIN workers : WorkerRecv(w)
    \/ \E w \in DOMAIN workers : WorkerOpen(w)
    \/ \E w \in DOMAIN workers : WorkerRecord(w)
    \/ \E w \in DOMAIN workers : WorkerExit(w)

Spec == Init /\ [][Next]_vars

-----------------------------------------------------------------------------
(* C2, C3, C4, C5 *)

\* the managers' reports after one worker's record loop over the stream fl
RECURSIVE RecordLoopAlone(_, _, _)
RecordLoopAlone(rs, lp, fl) ==
    LET res == NextRecord(lp, fl)
    IN IF Breaks(res.err) THEN rs
       ELSE RecordLoopAlone(ProcessRecord(rs, MasterRM, res.rec), Advance(lp, fl), fl)

\* the managers' reports after worker 0, alone, has processed files f, f+1, ...
RECURSIVE RunAlone(_, _)
RunAlone(rs, f) ==
    IF f > Len(files) THEN rs
    ELSE IF ~files[f].ok THEN RunAlone(rs, f + 1)
    ELSE RunAlone(RecordLoopAlone(rs, Reset(NewCSVParser(","), f), files[f]), f + 1)

\* the master's Reports at the end of a run of main with pool size 1
PoolOfOne ==
    LET start == RegisterReport(<<NewReportManager.reports>>, MasterRM, NewQuickReport(ks))
    IN Reduce(RunAlone(start, 1), <<NewReportManager.references>>, MasterRM)[MasterRM]

AfterJoin == mainpc \in {"merge", "reduce", "output", "done"}

\* C2: Worker-count invariance. Once Reduce has run, whatever the pool size
\* and the scheduling were, the master Report's count for every key is the
\* count a run with pool size 1 over the same files ends with.
C2_WorkerCountInvariance ==
    mainpc \in {"output", "done"} =>
        \A k \in DOMAIN reports[MasterRM][1].result \cup DOMAIN PoolOfOne[1].result :
            Get(reports[MasterRM][1].result, k) = Get(PoolOfOne[1].result, k)

\* a finished run in which two workers each tallied records of two files
C2_Witness ==
    /\ mainpc = "done"
    /\ nworkers = 2 /\ Len(files) = 2
    /\ wops[1].proc >= 2 /\ wops[2].proc >= 2
    /\ Total(reports[MasterRM][1].result) >= 4

\* C3: Join barrier. main merges the stats, reduces and writes only when
\* every one of the nworkers workers has sent its acknowledgment and none is
\* in Process; and a worker that has sent its acknowledgment makes no further
\* call of NextRecord or ProcessRecord and no further update of its stats.
C3_JoinBarrier ==
    /\ [](AfterJoin =>
            /\ Len(workers) = nworkers
            /\ \A w \in DOMAIN workers :
                   wops[w].acks = 1 /\ wpc[w] \notin {"recv", "process", "loop", "ack"})
    /\ [][\A w \in DOMAIN wops :
             wops[w].acks >= 1 =>
                 /\ wops'[w].next = wops[w].next
                 /\ wops'[w].proc = wops[w].proc
                 /\ wops'[w].stats = wops[w].stats]_vars

\* main is about to Reduce after two workers processed records and acknowledged
C3_Witness ==
    /\ mainpc = "reduce"
    /\ nworkers = 2
    /\ \A w \in DOMAIN workers : wops[w].proc >= 1 /\ wops[w].acks = 1

\* C4: Exclusive ownership. In the parallel phase every ReportManager (with
\* its Reports) and every Parser is used by at most one thread, the worker
\* that holds it, and never by main; worker 0 holds the master manager and
\* the master parser and every other worker a clone of its own.
C4_ExclusiveOwnership ==
    /\ \A m \in DOMAIN rmUsers :
          /\ Cardinality(rmUsers[m]) <= 1
          /\ \A t \in rmUsers[m] : t # MainThread /\ workers[t].reportMgr = m
    /\ \A p \in DOMAIN parserUsers :
          /\ Cardinality(parserUsers[p]) <= 1
          /\ \A t \in parserUsers[p] : t # MainThread /\ workers[t].parser = p
    /\ workers[1].reportMgr = MasterRM /\ workers[1].parser = 1
    /\ \A w \in DOMAIN workers : w > 1 =>
          /\ workers[w].reportMgr # MasterRM /\ workers[w].parser # 1
          /\ \E j \in DOMAIN references[MasterRM] : references[MasterRM][j] = workers[w].reportMgr
          /\ \A v \in DOMAIN workers : v # w =>
                 /\ workers[v].reportMgr # workers[w].reportMgr
                 /\ workers[v].parser # workers[w].parser

\* both workers are in their record loops and each has used its own instances
C4_Witness ==
    /\ InParallel
    /\ nworkers = 2
    /\ wpc = <<"loop", "loop">>
    /\ rmUsers = <<{1}, {2}>>
    /\ parserUsers = <<{1}, {2}>>

\* C5: Sentinel protocol. A worker acknowledges only after it dequeued the
\* sentinel, dequeues at most one sentinel and, once it has acknowledged,
\* neither dequeues nor acknowledges again; when the join is over every worker
\* has dequeued exactly one sentinel and sent exactly one acknowledgment.
C5_SentinelProtocol ==
    /\ [](\A w \in DOMAIN wops :
              /\ wops[w].acks <= wops[w].sentinels
              /\ wops[w].sentinels <= 1
              /\ wpc[w] = "ack" => wops[w].sentinels = 1 /\ wops[w].acks = 0)
    /\ [](AfterJoin => \A w \in DOMAIN wops : wops[w].sentinels = 1 /\ wops[w].acks = 1)
    /\ [][\A w \in DOMAIN wops :
             wops[w].acks >= 1 =>
                 wops'[w].deq = wops[w].deq /\ wops'[w].acks = wops[w].acks]_vars

\* a worker that dequeued two files and then its sentinel has acknowledged,
\* while the other worker is still at work
C5_Witness ==
    /\ nworkers = 2
    /\ \E w \in DOMAIN wops :
          /\ wops[w].deq = 3 /\ wops[w].sentinels = 1 /\ wops[w].acks = 1
          /\ wpc[w] = "exited"
    /\ \E w \in DOMAIN wops : wops[w].acks = 0

-----------------------------------------------------------------------------
(* C9, C10 *)

\* what worker w's next call of NextRecord returns (w is in its record loop)
Decoding(w) ==
    NextRecord(parsers[workers[w].parser], files[parsers[workers[w].parser].reader.file])

\* this step is an iteration of worker w's record loop
Iterated(w) == wpc[w] = "loop" /\ wops'[w].next = wops[w].next + 1

\* C9: A failed decode contributes nothing. An iteration of the record loop
\* whose NextRecord returns an error other than end-of-stream changes no
\* Report of the worker's ReportManager, and the loop goes on.
C9_FailedDecodeAddsNothing ==
    [][\A w \in DOMAIN workers :
          (Iterated(w) /\ Decoding(w).err = "parse") =>
              /\ reports'[workers[w].reportMgr] = reports[workers[w].reportMgr]
              /\ wpc'[w] = "loop"]_vars

\* C10: Partial-file resilience. The record loop takes the records of the
\* stream one by one in order and ends only at end-of-stream: an iteration
\* over a well-formed record adds exactly 1 to that record's key in the
\* worker's Report and moves on to the next record, and an iteration over a
\* malformed record moves on to the next record too and stays in the loop.
C10_PartialFileResilience ==
    [][\A w \in DOMAIN workers :
          Iterated(w) =>
              LET lp == parsers[workers[w].parser]
                  res == Decoding(w)
                  old == reports[workers[w].reportMgr][1]
                  new == reports'[workers[w].reportMgr][1]
                  key == ExpectedKey(res.rec.r, old.keys)
              IN /\ res.err = "nil" =>
                       /\ \A k \in DOMAIN old.result \cup DOMAIN new.result \cup {key} :
                              Get(new.result, k) = Get(old.result, k) + (IF k = key THEN 1 ELSE 0)
                       /\ wops'[w].proc = wops[w].proc + 1
                 /\ res.err # "EOF" =>
                       /\ wpc'[w] = "loop"
                       /\ parsers'[workers[w].parser].reader = [lp.reader EXCEPT !.pos = @ + 1]
                 /\ wpc'[w] # "loop" =>
                       /\ res.err = "EOF"
                       /\ lp.reader.pos = Len(files[lp.reader.file].items) + 1]_vars

\* a worker is through a file whose second record is malformed and has both
\* well-formed records, the one before and the one after, under key a
C10_Witness ==
    \E w \in DOMAIN workers :
        /\ wpc[w] = "recv" /\ wfile[w] # Sentinel
        /\ files[wfile[w]].items = <<GoodItem(<<"a", "x">>), BadItem(<<>>), GoodItem(<<"a", "y">>)>>
        /\ ks = <<0>>
        /\ workers[w].stats.files = 1
        /\ Get(reports[workers[w].reportMgr][1].result, "a") = 2

-----------------------------------------------------------------------------
(* C11, C14, C17, C19, C20 *)

\* C11: Per-file failure isolation. When stat, open or the decompressor's
\* initialisation fails for the file a worker calls Process on, the step
\* leaves the worker's four counters and every Report as they were, sends no
\* acknowledgment, and puts the worker back at the dequeue of its next task.
C11_FileFailureIsolation ==
    [][\A w \in DOMAIN workers :
          (/\ wpc[w] = "process"
           /\ ~files[wfile[w]].ok
           /\ Len(wops'[w].procd) = Len(wops[w].procd) + 1) =>
              /\ workers'[w].stats = workers[w].stats
              /\ reports' = reports
              /\ wops'[w].acks = wops[w].acks /\ exit' = exit
              /\ wpc'[w] = "recv"]_vars

\* a worker whose first file failed has gone on, dequeued a second file and
\* processed it to its end
C11_Witness ==
    \E w \in DOMAIN workers :
        /\ Len(wops[w].took) = 2
        /\ ~files[wops[w].took[1]].ok
        /\ wops[w].procd = wops[w].took
        /\ workers[w].stats.files = 1 /\ workers[w].stats.records >= 2
        /\ wops[w].acks = 0

\* how often f occurs in seq
Count(seq, f) == Cardinality({j \in DOMAIN seq : seq[j] = f})

\* how often workers 1..w have f in their field (took or procd)
RECURSIVE CountIn(_, _, _)
CountIn(field, f, w) ==
    IF w = 0 THEN 0 ELSE Count(wops[w][field], f) + CountIn(field, f, w - 1)

\* main has pushed file f
Pushed(f) ==
    \/ mainpc = "push" /\ f <= mi
    \/ mainpc \in {"sentinel", "wait", "merge", "reduce", "output", "done"}

\* C14: Exactly-once task processing. Every file pushed is in the queue or
\* was dequeued by exactly one worker, once; a worker calls Process on each
\* file it dequeued once, right after the dequeue; no sentinel is dequeued
\* before every file has been; and when the join is over the queue is empty
\* and Process has been called exactly once on every file.
C14_ExactlyOnce ==
    /\ \A f \in 1..Len(files) :
          /\ CountIn("took", f, Len(wops)) + Count(tasks, f) = (IF Pushed(f) THEN 1 ELSE 0)
          /\ CountIn("procd", f, Len(wops)) <= 1
    /\ \A w \in DOMAIN wops :
          wops[w].procd = IF wpc[w] = "process"
                          THEN SubSeq(wops[w].took, 1, Len(wops[w].took) - 1)
                          ELSE wops[w].took
    /\ (\E w \in DOMAIN wops : wops[w].sentinels >= 1) =>
          \A f \in 1..Len(files) : CountIn("took", f, Len(wops)) = 1
    /\ AfterJoin =>
          /\ tasks = <<>>
          /\ \A f \in 1..Len(files) : CountIn("procd", f, Len(wops)) = 1

\* the join is over and each of two workers processed one of the two files
C14_Witness ==
    /\ AfterJoin
    /\ nworkers = 2 /\ Len(files) = 2
    /\ Len(wops[1].procd) = 1 /\ Len(wops[2].procd) = 1
    /\ tasks = <<>>

\* the file count, byte counts and record count a run over files ends with
RECURSIVE StatsOfFiles(_)
StatsOfFiles(f) ==
    IF f > Len(files) THEN [files |-> 0, bytes |-> 0, bytesCompressed |-> 0, records |-> 0]
    ELSE LET rest == StatsOfFiles(f + 1)
         IN IF ~files[f].ok THEN rest
            ELSE [files |-> rest.files + 1,
                  bytes |-> rest.bytes,
                  bytesCompressed |-> rest.bytesCompressed + files[f].size,
                  records |-> rest.records + Len(files[f].items)]

\* C17: WorkerStats totals. The merge runs only after all nworkers
\* acknowledgments; its iteration for the master changes nothing, its
\* iteration for any other worker adds that worker's four counters to the
\* master's and leaves that worker's stats as they were; so the total logged
\* after the merge has each counter equal to the sum over all workers, which
\* is the count over all files.
C17_StatsTotals ==
    /\ [](mainpc = "merge" => \A w \in DOMAIN wops : wops[w].acks = 1)
    /\ [][(mainpc = "merge" /\ <<mainpc, mi>>' # <<mainpc, mi>>) =>
             /\ \A w \in DOMAIN workers : w # 1 => workers'[w] = workers[w]
             /\ LET m == workers[1].stats
                    o == workers[mi + 1].stats
                    n == workers'[1].stats
                IN IF mi = 0 THEN n = m
                   ELSE /\ n.files = m.files + o.files
                        /\ n.bytes = m.bytes + o.bytes
                        /\ n.bytesCompressed = m.bytesCompressed + o.bytesCompressed
                        /\ n.records = m.records + o.records]_vars
    /\ [](mainpc \in {"reduce", "output", "done"} => workers[1].stats = StatsOfFiles(1))

\* the merge is over; the master and the other worker each processed a file
C17_Witness ==
    /\ mainpc = "reduce"
    /\ nworkers = 2
    /\ workers[2].stats.files = 1 /\ workers[2].stats.records >= 1
    /\ workers[1].stats.files = 2
    /\ workers[1].stats.records > workers[2].stats.records

\* the records worker w has taken from the files it called Process on
RECURSIVE Due(_, _)
Due(w, j) ==
    IF j = 0 THEN 0
    ELSE Due(w, j - 1) +
         (IF ~files[wops[w].procd[j]].ok THEN 0
          ELSE IF j = Len(wops[w].procd) /\ wpc[w] = "loop"
               THEN parsers[workers[w].parser].reader.pos - 1
               ELSE Len(files[wops[w].procd[j]].items))

\* C19: End-of-stream handling. The iteration whose NextRecord returns
\* end-of-stream calls no ProcessRecord and changes no Report, leaves records
\* and bytes as they were, adds 1 to files and the file's size to
\* bytesCompressed, and Process returns with no error (the worker is back at
\* its dequeue); and at any time a worker's ProcessRecord calls and its
\* records counter both equal the number of records it has taken from its
\* files, n for each file of n records it is through.
C19_EndOfStream ==
    /\ [][\A w \in DOMAIN workers :
             (Iterated(w) /\ Decoding(w).err = "EOF") =>
                 /\ reports' = reports
                 /\ wops'[w].proc = wops[w].proc
                 /\ workers'[w].stats.records = workers[w].stats.records
                 /\ workers'[w].stats.bytes = workers[w].stats.bytes
                 /\ workers'[w].stats.files = workers[w].stats.files + 1
                 /\ workers'[w].stats.bytesCompressed =
                        workers[w].stats.bytesCompressed + files[wfile[w]].size
                 /\ wpc'[w] = "recv"]_vars
    /\ [](\A w \in DOMAIN workers :
              /\ wops[w].proc = Due(w, Len(wops[w].procd))
              /\ (w # 1 \/ ~AfterJoin) =>
                     workers[w].stats.records = Due(w, Len(wops[w].procd)))

\* a worker is through a file of two well-formed records
C19_Witness ==
    \E w \in DOMAIN workers :
        /\ wpc[w] = "recv" /\ wops[w].procd # <<>>
        /\ files[wfile[w]].items = <<GoodItem(<<"a", "x">>), GoodItem(<<"b", "y">>)>>
        /\ wops[w].procd = <<wfile[w]>>
        /\ workers[w].stats = [files |-> 1, bytes |-> 0, bytesCompressed |-> 3, records |-> 2]
        /\ wops[w].proc = 2

\* C20: Count/record conservation. While the workers run (until the join is
\* over) the counts in each worker's Report add up to that worker's records
\* counter; and once Reduce has run the counts in the master Report add up to
\* the records counter of the merged stats.
C20_Conservation ==
    /\ ~AfterJoin =>
          \A w \in DOMAIN workers :
              Total(reports[workers[w].reportMgr][1].result) = workers[w].stats.records
    /\ mainpc \in {"output", "done"} =>
          Total(reports[MasterRM][1].result) = workers[1].stats.records

\* the run is over: two workers' records, a failed decode among them, are all
\* in the master Report
C20_Witness ==
    /\ mainpc = "done"
    /\ nworkers = 2
    /\ workers[2].stats.records >= 1
    /\ workers[1].stats.records >= 4
    /\ \E f \in DOMAIN files : \E j \in DOMAIN files[f].items : files[f].items[j].bad
    /\ Total(reports[MasterRM][1].result) = workers[1].stats.records

-----------------------------------------------------------------------------
(* C15 *)

ClonesOf(rm) == {references[rm][j] : j \in DOMAIN references[rm]}

\* the count of key k in Report i, summed over the managers cs
RECURSIVE SumKey(_, _, _, _)
SumKey(rs, cs, i, k) ==
    IF cs = {} THEN 0
    ELSE LET c == CHOOSE x \in cs : TRUE
         IN Get(rs[c][i].result, k) + SumKey(rs, cs \ {c}, i, k)

\* C15: Reduce postcondition. A step that is a Reduce leaves, for every Report
\* index i and every key, the master's count equal to its count before plus
\* the sum of that key's counts in Report i of every referenced clone before,
\* leaves Report i of every referenced clone empty, and keeps the total count
\* over the master and its clones.
C15_ReducePostcondition ==
    [][(lastOp'[2].op = "Reduce" /\ lastOp'[1] = lastOp[2]) =>
         /\ \A i \in DOMAIN reports[MasterRM] :
               /\ \A k \in UNION {DOMAIN reports[m][i].result : m \in DOMAIN reports}
                           \cup DOMAIN reports'[MasterRM][i].result :
                      Get(reports'[MasterRM][i].result, k) =
                          Get(reports[MasterRM][i].result, k)
                          + SumKey(reports, ClonesOf(MasterRM), i, k)
               /\ \A c \in ClonesOf(MasterRM) : DOMAIN reports'[c][i].result = {}
         /\ CountsIn(reports', DOMAIN reports') = CountsIn(reports, DOMAIN reports)]_vars

\* a Reduce of a master with two Reports folded in counts of both its clones
C15_Witness ==
    /\ lastOp[2].op = "Reduce" /\ lastOp[2].n = 4
    /\ Len(reports[MasterRM]) = 2
    /\ Len(references[MasterRM]) = 2
    /\ lastOp[1].op = "ProcessRecord" /\ lastOp[1].rm = 3
    /\ Total(reports[MasterRM][1].result) = 3
    /\ Total(reports[MasterRM][2].result) = 3

-----------------------------------------------------------------------------
(* SpecReg: a new ReportManager, then any sequence of RegisterReport, Clone,
   ProcessRecord and Reduce *)

MaxReports == 2

MaxRegRecords == 2

RegKeyLists == {<<0>>, <<1>>}

RegRecords == {StrRec(<<"a", "x">>), StrRec(<<"b">>)}

InitReg ==
    /\ IdleMain
    /\ reports = <<NewReportManager.reports>>
    /\ references = <<NewReportManager.references>>
    /\ seqReports = <<>>
    /\ lastOp = <<NoOp, NoOp>>
    /\ calls = 0
    /\ added = <<>>
    /\ lateRegister = FALSE

RegRegister ==
    /\ ~Crashed
    /\ Len(reports[MasterRM]) < MaxReports
    /\ \E keys \in RegKeyLists :
          reports' = RegisterReport(reports, MasterRM, NewQuickReport(keys))
    /\ lateRegister' = (lateRegister \/ references[MasterRM] # <<>>)
    /\ lastOp' = Called("RegisterReport", MasterRM, Len(reports[MasterRM]) + 1)
    /\ UNCHANGED <<mainVars, references, calls, added, seqReports>>

RegProcessRecord ==
    /\ ~Crashed
    /\ calls < MaxRegRecords
    /\ \E rm \in DOMAIN reports, rec \in RegRecords :
          /\ reports' = ProcessRecord(reports, rm, rec)
          /\ lastOp' = Called("ProcessRecord", rm, 1)
    /\ calls' = calls + 1
    /\ UNCHANGED <<mainVars, references, added, seqReports, lateRegister>>

\* a Reduce that reaches a clone with fewer Reports than the master: the
\* index is out of range and the program panics
RMReducePanic ==
    /\ ~Crashed
    /\ ReducePanics(reports, references, MasterRM)
    /\ reports' = ReduceUntilPanic(reports, references, MasterRM, 1, 1)
    /\ lastOp' = Called("ReducePanic", MasterRM, 0)
    /\ UNCHANGED <<mainVars, references, calls, added, seqReports, lateRegister>>

NextReg == RegRegister \/ RMClone \/ RegProcessRecord \/ RMReduce \/ RMReducePanic

SpecReg == InitReg /\ [][NextReg]_vars

-----------------------------------------------------------------------------
(* C16 *)

\* every referenced clone holds as many Reports as rm, with the same key
\* lists in the same order, and Reduce's nrm.reports[i] is in range
SameShape(rm) ==
    /\ \A c \in ClonesOf(rm) :
          /\ Len(reports[c]) = Len(reports[rm])
          /\ \A i \in DOMAIN reports[c] :
                i \in DOMAIN reports[rm] /\ reports[c][i].keys = reports[rm][i].keys
    /\ ~ReducePanics(reports, references, rm)
    /\ ~Crashed

\* C16 as stated: Clone shape invariant. In every state reachable by any
\* sequence of RegisterReport, Clone, ProcessRecord and Reduce calls, every
\* manager in the references list holds the same number of Reports, in the
\* same order and of the same kind, as the manager itself, so that Reduce's
\* access to the clone's Report at each index is in range.
C16_ShapeAlways == SameShape(MasterRM)

\* C16 as amended: the same, for the sequences of calls in which no
\* RegisterReport is made on a manager that has been cloned.
C16_ShapeIfRegisteredFirst == ~lateRegister => SameShape(MasterRM)

\* two Reports registered, then two clones, records and a Reduce
C16_Witness ==
    /\ ~lateRegister
    /\ Len(reports[MasterRM]) = 2
    /\ Len(references[MasterRM]) = 2
    /\ lastOp[2].op = "Reduce" /\ lastOp[2].n >= 2

-----------------------------------------------------------------------------
(* SpecStartup: the whole of main, from the command line on. Strings of the
   command line are sequences of one-character strings. *)

Digits == <<"0", "1", "2", "3", "4", "5", "6", "7", "8", "9">>

DigitVal(c) == (CHOOSE d \in DOMAIN Digits : Digits[d] = c) - 1

IsDigit(c) == \E d \in DOMAIN Digits : Digits[d] = c

\* strings.Split(s, sep): the pieces between the separators, one (empty)
\* piece for the empty string
RECURSIVE SplitFrom(_, _, _, _, _)
SplitFrom(s, sep, i, cur, acc) ==
    IF i > Len(s) THEN Append(acc, cur)
    ELSE IF s[i] = sep THEN SplitFrom(s, sep, i + 1, <<>>, Append(acc, cur))
    ELSE SplitFrom(s, sep, i + 1, Append(cur, s[i]), acc)

Split(s, sep) == SplitFrom(s, sep, 1, <<>>, <<>>)

RECURSIVE DecimalFrom(_, _, _)
DecimalFrom(s, i, n) ==
    IF i > Len(s) THEN n ELSE DecimalFrom(s, i + 1, 10 * n + DigitVal(s[i]))

\* strconv.Atoi: an optional sign, then one or more decimal digits
Atoi(s) ==
    LET signed == s # <<>> /\ s[1] \in {"+", "-"}
        digits == IF signed THEN Tail(s) ELSE s
    IN IF digits # <<>> /\ \A i \in DOMAIN digits : IsDigit(digits[i])
       THEN [n |-> IF signed /\ s[1] = "-" THEN 0 - DecimalFrom(digits, 1, 0)
                   ELSE DecimalFrom(digits, 1, 0),
             err |-> "nil"]
       ELSE [n |-> 0, err |-> "syntax"]

\* the loop over the pieces of -keys: a piece Atoi rejects is skipped
RECURSIVE ParseKeys(_, _, _)
ParseKeys(pieces, i, acc) ==
    IF i > Len(pieces) THEN acc
    ELSE LET a == Atoi(pieces[i])
         IN ParseKeys(pieces, i + 1, IF a.err # "nil" THEN acc ELSE Append(acc, a.n))

\* the values of -keys: "0", "0,1", "x", "", "-1", "0,x", "1,,0", "+1,-0"
SampleKeys ==
    {<<"0">>, <<"0", ",", "1">>, <<"x">>, <<>>, <<"-", "1">>, <<"0", ",", "x">>,
     <<"1", ",", ",", "0">>, <<"+", "1", ",", "-", "0">>}

TwoRecords == [ok |-> TRUE, size |-> 3, items |-> <<GoodItem(<<"a", "x">>), GoodItem(<<"b", "y">>)>>]

NoOpen == [ok |-> FALSE, size |-> 0, items |-> <<>>]

DirEntry == [isDir |-> TRUE, file |-> NoOpen]

FileEntry(f) == [isDir |-> FALSE, file |-> f]

\* the values of -in: a path os.Stat fails on; a regular file; a regular file
\* that cannot be opened; a directory with a subdirectory and two files; an
\* empty directory; a directory that ioutil.ReadDir cannot list
SampleIns ==
    {[stat |-> FALSE, isDir |-> FALSE, readable |-> FALSE, entries |-> <<>>],
     [stat |-> TRUE, isDir |-> FALSE, readable |-> TRUE, entries |-> <<FileEntry(TwoRecords)>>],
     [stat |-> TRUE, isDir |-> FALSE, readable |-> FALSE, entries |-> <<FileEntry(NoOpen)>>],
     [stat |-> TRUE, isDir |-> TRUE, readable |-> TRUE,
      entries |-> <<FileEntry(TwoRecords), DirEntry, FileEntry(TwoRecords)>>],
     [stat |-> TRUE, isDir |-> TRUE, readable |-> TRUE, entries |-> <<>>],
     [stat |-> TRUE, isDir |-> TRUE, readable |-> FALSE,
      entries |-> <<FileEntry(TwoRecords), DirEntry>>]}

InitStartup ==
    /\ flags \in [keys : SampleKeys, in : SampleIns, procs : 1..MaxWorkers]
    /\ ks = <<>> /\ files = <<>> /\ nworkers = 0
    /\ reports = <<>> /\ references = <<>>
    /\ parsers = <<>> /\ workers = <<>> /\ wpc = <<>> /\ wfile = <<>>
    /\ tasks = <<>> /\ exit = 0 /\ mainpc = "stat" /\ mi = 0 /\ output = <<>>
    /\ rmUsers = <<>> /\ parserUsers = <<>> /\ wops = <<>>
    /\ lastOp = <<NoOp, NoOp>>
    /\ calls = 0
    /\ added = <<>>
    /\ seqReports = <<>>
    /\ lateRegister = FALSE

\* fi, err := os.Stat(*in); if err != nil { return }
MainStat ==
    /\ mainpc = "stat"
    /\ mainpc' = IF flags.in.stat THEN "list" ELSE "aborted"
    /\ UNCHANGED <<flags, ks, files, nworkers, reports, references, parsers, workers, wpc,
                   wfile, tasks, exit, mi, output, rmUsers, parserUsers, wops, rmGhost>>

\* the entries ioutil.ReadDir returns: none when it fails
ReadDir(in) == IF in.readable THEN in.entries ELSE <<>>

RECURSIVE RegularFiles(_, _, _)
RegularFiles(fis, i, acc) ==
    IF i > Len(fis) THEN acc
    ELSE RegularFiles(fis, i + 1, IF fis[i].isDir THEN acc ELSE Append(acc, fis[i].file))

\* the file list: the regular files of a directory (ReadDir's error is
\* dropped), or the path itself
MainListFiles ==
    /\ mainpc = "list"
    /\ files' = IF flags.in.isDir THEN RegularFiles(ReadDir(flags.in), 1, <<>>)
                ELSE <<flags.in.entries[1].file>>
    /\ mainpc' = "keys"
    /\ UNCHANGED <<flags, ks, nworkers, reports, references, parsers, workers, wpc,
                   wfile, tasks, exit, mi, output, rmUsers, parserUsers, wops, rmGhost>>

\* the key list; if len(ks) == 0 { return }
MainParseKeys ==
    /\ mainpc = "keys"
    /\ ks' = ParseKeys(Split(flags.keys, ","), 1, <<>>)
    /\ mainpc' = IF Len(ks') = 0 THEN "aborted" ELSE "setup"
    /\ UNCHANGED <<flags, files, nworkers, reports, references, parsers, workers, wpc,
                   wfile, tasks, exit, mi, output, rmUsers, parserUsers, wops, rmGhost>>

\* the parser, the ReportManager with its QuickReport, the channels and
\* workers[0]
MainSetup ==
    /\ mainpc = "setup"
    /\ parsers' = <<NewCSVParser(",")>>
    /\ reports' = RegisterReport(<<NewReportManager.reports>>, MasterRM, NewQuickReport(ks))
    /\ references' = <<NewReportManager.references>>
    /\ nworkers' = flags.procs
    /\ workers' = <<NewWorker(0, MasterRM, 1)>>
    /\ wpc' = <<"new">>
    /\ wfile' = <<Sentinel>>
    /\ wops' = <<ZeroOps>>
    /\ rmUsers' = <<{}>>
    /\ parserUsers' = <<{}>>
    /\ mainpc' = IF nworkers' > 1 THEN "create" ELSE "start"
    /\ mi' = IF nworkers' > 1 THEN 1 ELSE 0
    /\ UNCHANGED <<flags, ks, files, tasks, exit, output, rmGhost>>

\* an iteration of the record loop whose Add indexes the record at a negative
\* position: the runtime panics and the process ends
WorkerPanic(w) ==
    /\ wpc[w] = "loop"
    /\ LET lp == parsers[workers[w].parser]
           res == NextRecord(lp, files[lp.reader.file])
       IN /\ ~Breaks(res.err)
          /\ \E i \in DOMAIN reports[workers[w].reportMgr] :
                AddPanics(reports[workers[w].reportMgr][i], res.rec)
    /\ wpc' = [v \in DOMAIN wpc |-> "dead"]
    /\ mainpc' = "panicked"
    /\ UNCHANGED <<flags, ks, files, nworkers, reports, references, parsers, workers,
                   wfile, tasks, exit, mi, output, rmUsers, parserUsers, wops, rmGhost>>

NextStartup ==
    \/ MainStat
    \/ MainListFiles
    \/ MainParseKeys
    \/ MainSetup
    \/ \E w \in DOMAIN workers : WorkerPanic(w)
    \/ Next

SpecStartup == InitStartup /\ [][NextStartup]_vars

-----------------------------------------------------------------------------
(* C12, C18 *)

\* a piece of -keys that is a key-field index: a non-negative decimal number
ValidIndex(piece) == Atoi(piece).err = "nil" /\ Atoi(piece).n >= 0

NoValidIndex ==
    LET pieces == Split(flags.keys, ",")
    IN \A i \in DOMAIN pieces : ~ValidIndex(pieces[i])

\* the input path cannot be read: os.Stat, ioutil.ReadDir or os.Open fails
Unreadable == ~flags.in.stat \/ ~flags.in.readable

\* C12: Startup abort. If no entry of the configured key list parses to a
\* valid key-field index, or the input path cannot be read, the run ends
\* before any worker is created or started: no task is enqueued, no record is
\* processed and no output is written.
C12_StartupAbort ==
    (NoValidIndex \/ Unreadable) =>
        /\ workers = <<>>
        /\ \A w \in DOMAIN wpc : wpc[w] = "new"
        /\ tasks = <<>>
        /\ \A w \in DOMAIN wops : wops[w].next = 0
        /\ output = <<>>

\* C18: Key indices are non-negative. Every index in the key list handed to
\* the key-tally Report is a non-negative integer (non-numeric and negative
\* entries of -keys are dropped), and QuickReport.Add never indexes a record
\* at a negative position.
C18_KeysNonNegative ==
    /\ \A rm \in DOMAIN reports : \A i \in DOMAIN reports[rm] :
          \A k \in DOMAIN reports[rm][i].keys : reports[rm][i].keys[k] >= 0
    /\ mainpc # "panicked"

-----------------------------------------------------------------------------
(* SpecLive: the run of the pool under fair scheduling, over files that open
   and files that do not *)

LiveFiles == {TwoRecords, NoOpen}

InitLive ==
    /\ flags = NoFlags
    /\ ks = <<0>>
    /\ files \in UNION {[1..n -> LiveFiles] : n \in 0..MaxFiles}
    /\ nworkers \in 1..MaxWorkers
    /\ reports = RegisterReport(<<NewReportManager.reports>>, MasterRM, NewQuickReport(ks))
    /\ references = <<NewReportManager.references>>
    /\ parsers = <<NewCSVParser(",")>>
    /\ workers = <<NewWorker(0, MasterRM, 1)>>
    /\ wpc = <<"new">>
    /\ wfile = <<Sentinel>>
    /\ wops = <<ZeroOps>>
    /\ tasks = <<>>
    /\ exit = 0
    /\ mainpc = IF nworkers > 1 THEN "create" ELSE "start"
    /\ mi = IF nworkers > 1 THEN 1 ELSE 0
    /\ output = <<>>
    /\ rmUsers = <<{}>>
    /\ parserUsers = <<{}>>
    /\ lastOp = <<NoOp, NoOp>>
    /\ calls = 0
    /\ added = <<>>
    /\ seqReports = <<>>
    /\ lateRegister = FALSE

\* the Go scheduler runs a goroutine that can run: a step is taken as long
\* as one is possible
SpecLive == InitLive /\ [][Next]_vars /\ WF_vars(Next)

-----------------------------------------------------------------------------
(* C13 *)

RECURSIVE Dequeued(_)
Dequeued(w) == IF w = 0 THEN 0 ELSE wops[w].deq + Dequeued(w - 1)

\* the producer is at a channel operation that cannot proceed
ProducerBlocked ==
    \/ mainpc \in {"push", "sentinel"} /\ Len(tasks) >= nworkers
    \/ mainpc = "wait" /\ exit = 0

\* worker w is live and at a channel operation that cannot proceed
WorkerBlocked(w) ==
    \/ wpc[w] = "recv" /\ Len(tasks) = 0
    \/ wpc[w] = "ack" /\ exit >= nworkers

Live(w) == wpc[w] \notin {"new", "exited"}

\* every file and N sentinels went through the queue, every worker has
\* acknowledged, and main is at Reduce
DispatchDone ==
    /\ mainpc = "reduce"
    /\ tasks = <<>>
    /\ Len(workers) = nworkers
    /\ Dequeued(Len(wops)) = Len(files) + nworkers
    /\ \A w \in DOMAIN wops : wops[w].acks = 1 /\ wops[w].sentinels = 1

\* C13: Deadlock freedom and termination of the dispatch. Under fair
\* scheduling the producer eventually enqueues every file and N sentinels,
\* every worker eventually acknowledges, and main eventually reaches Reduce;
\* no reachable state has the producer and all live workers blocked.
C13_DispatchTerminates ==
    /\ <>DispatchDone
    /\ [](~(ProducerBlocked /\ \A w \in DOMAIN wpc : Live(w) => WorkerBlocked(w)))

\* the producer waits at the full queue with its first sentinel while the
\* workers are busy in their record loops
C13_Witness ==
    /\ ProducerBlocked
    /\ mainpc = "sentinel"
    /\ Len(files) = 2
    /\ \A w \in DOMAIN wpc : wpc[w] = "loop"

====
